---------------------------- MODULE Spec2Model ----------------------------
(***************************************************************************)
(* Model of the oneapi-misc benchmark programs:                            *)
(*   recursive-fib.cpp  the recursive task-spawning Fibonacci benchmark    *)
(*   noploop.cpp        the nop-loop benchmark (arena.execute + observer)  *)
(*                                                                         *)
(* Specifications                                                          *)
(*   Spec      recursive-fib.cpp, one input record, every task of the      *)
(*             parallel_invoke tree a separate step on one of the threads  *)
(*             of the arena the calls run in                               *)
(*   SpecFair  Spec, with the progress the scheduling of the tasks gives   *)
(*   SpecMain  recursive-fib.cpp, main over input streams of up to         *)
(*             MaxTokens tokens, each top-level call one step of main      *)
(*   SpecJobs  as SpecMain, over one well-formed record with n up to       *)
(*             MaxJobsN                                                    *)
(*   SpecE2E   as SpecMain, for the input `10 4` and one repetition        *)
(*   SpecNop   noploop.cpp, main, the threads that join the arena and the  *)
(*             pinning observer                                            *)
(*   SpecStats recursive-fib.cpp, calc_statistics on samples of small      *)
(*             counts                                                      *)
(*   SpecAvg   recursive-fib.cpp, the sum and the count calc_statistics    *)
(*             takes avg from, on samples of large counts                  *)
(***************************************************************************)
EXTENDS Integers, Sequences, FiniteSets, TLC

(***************************************************************************)
(* Bounds of the model.                                                    *)
(***************************************************************************)
\* the Fibonacci indices whose task tree is explored step by step: n = 4
\* is the least whose tree holds two invocations with n >= 2 (those of 3
\* and of 2) that run at the same time
FineFibNums == {0, 1, 2, 3, 4}
MaxN == CHOOSE n \in FineFibNums : \A m \in FineFibNums : m <= n
\* hardware threads of the machine: get_nprocs(), and the default
\* concurrency of the arena a thread outside any task_arena runs in
NProcs == 2

\* a token of standard input that is not a number
NaN == -1
\* a u64 local of a call that no child has written yet
Uninit == -1

\* the repetition counts given on the command line (argv), already
\* validated by main lines 180-190
TestCounts == {1, 2}
\* the worker counts an input record asks for
ThreadCounts == {0, 1, 2, 4}

(***************************************************************************)
(* Pure functions of recursive-fib.cpp.                                    *)
(***************************************************************************)
RECURSIVE threads_created_alt(_)
threads_created_alt(n) ==
    IF n < 2 THEN 0 ELSE 1 + threads_created_alt(n - 1) + threads_created_alt(n - 2)

\* u64 threads_created(int n)
RECURSIVE threads_created(_)
threads_created(n) ==
    IF n < 2 THEN 0 ELSE 2 + threads_created(n - 1) + threads_created(n - 2)

RECURSIVE parallel_fib_alt(_)
parallel_fib_alt(n) ==
    IF n < 2 THEN 1 ELSE parallel_fib_alt(n - 1) + parallel_fib_alt(n - 2)

\* the value parallel_fib(n) returns once every task of its tree has
\* returned: n if n < 2, else x + y of the two children
RECURSIVE parallel_fib(_)
parallel_fib(n) ==
    IF n < 2 THEN n ELSE parallel_fib(n - 1) + parallel_fib(n - 2)

\* the number of take_measurement() calls parallel_fib_lb(n, lb) makes:
\* one per invocation that passes the n < 2 test, plus its children's
RECURSIVE measurements(_)
measurements(n) ==
    IF n < 2 THEN 0 ELSE 1 + measurements(n - 1) + measurements(n - 2)

RECURSIVE SumSeq(_)
SumSeq(s) == IF s = <<>> THEN 0 ELSE Head(s) + SumSeq(Tail(s))

RECURSIVE MinSeq(_)
MinSeq(s) ==
    IF Len(s) = 1 THEN Head(s)
    ELSE LET m == MinSeq(Tail(s)) IN IF Head(s) <= m THEN Head(s) ELSE m

RECURSIVE MaxSeq(_)
MaxSeq(s) ==
    IF Len(s) = 1 THEN Head(s)
    ELSE LET m == MaxSeq(Tail(s)) IN IF Head(s) >= m THEN Head(s) ELSE m

(***************************************************************************)
(* State.                                                                  *)
(***************************************************************************)
VARIABLES
    \* recursive-fib.cpp, main
    stream,     \* history: all the tokens standard input holds
    input,      \* std::cin: the tokens not yet read
    eofbit,     \* std::cin.eof()
    failbit,    \* std::cin.fail()
    pc,         \* where main is
    tests,      \* int tests (argv)
    i,          \* the repetition counter of line 197
    fib_num,    \* int fib_num
    nthread,    \* unsigned nthread
    arena,      \* oneapi::tbb::task_arena arena(nthread) of line 195
    observer,   \* pinning_observer observer(arena) of line 196
    ret,        \* the value the last top-level call returned
    result,     \* auto result = parallel_fib(fib_num)
    jobs,       \* double jobs = threads_created(fib_num)
    nslots,     \* int nslots = this_task_arena::max_concurrency()
    lb,         \* load_balance lb(nthread, nslots)
    stats,      \* the statistics calc_statistics returned to operator<<
    out,        \* std::cout: the records written
    err,        \* std::cerr: the diagnostics written
    status,     \* the exit status of the process, Running until it ends
    \* recursive-fib.cpp, the tasks of one parallel_fib / parallel_fib_lb tree
    tasks,      \* the invocations in flight, by their place in the call tree
    stack,      \* per thread, the invocations it is inside, innermost last
    invocations, \* history: the invocations with n >= 2 the current
                \* top-level call has made so far
    \* noploop.cpp; its main shares stream, input, eofbit, failbit, pc, i,
    \* arena, observer, out, err and status with the main above
    count,      \* int count (argv)
    method,     \* int method
    threads,    \* int threads
    iterations, \* u64 iterations
    go,         \* void (*go)(u64), as the method it stands for
    cpuset,     \* the processors the system lets the process run on
    work,       \* the iterations of the running go(iterations) not yet done
    where,      \* per thread: out of the arena, entered (slot taken,
                \* on_scheduler_entry called), masked (line 43 done), in
    mask,       \* per thread: the processor set in its cpu_set_t mask
    affinity,   \* per thread: the processors it is bound to
    applied,    \* per thread: whether its last sched_setaffinity succeeded
    joins,      \* history: the values on_scheduler_entry drew, in order
    ran,        \* history: who ran an iteration, and with what affinity
    narenas,    \* history: the arenas constructed so far
    \* recursive-fib.cpp, calc_statistics on its own
    sample      \* const std::vector<u64>& v, the argument

mainVars == <<stream, input, eofbit, failbit, pc, tests, i, fib_num, nthread, arena,
              observer, ret, result, jobs, nslots, lb, stats, out, err, status>>
taskVars == <<tasks, stack, invocations>>
nopVars == <<count, method, threads, iterations, go, cpuset, work, where, mask,
             affinity, applied, joins, ran, narenas>>
vars == <<mainVars, taskVars, nopVars, sample>>

Running == "running"
EXIT_SUCCESS == 0
EXIT_FAILURE == 1
\* the process was killed by a signal
Killed == 139

(***************************************************************************)
(* The threads that run tasks.  main never calls arena.execute, so every   *)
(* parallel_invoke of recursive-fib.cpp runs in the arena main's thread is *)
(* implicitly in, whose concurrency is the machine's, not nthread.  A slot *)
(* of that arena is occupied by one thread at a time; main has slot 0.     *)
(* A thread that waits in parallel_invoke takes tasks that are ready and   *)
(* runs them on its own stack, so it returns to the invocation that waits  *)
(* only when the ones it entered since have returned.                      *)
(***************************************************************************)
max_concurrency == NProcs
Slots == 0 .. (max_concurrency - 1)
MainThread == 0

\* oneapi::tbb::this_task_arena::current_thread_index() in a task run by
\* the thread in slot t
current_thread_index_shared(t) == 0
current_thread_index(t) == t

(***************************************************************************)
(* The call tree: invocation 1 is the top-level call, invocation k's       *)
(* children are 2k (the n - 1 call, writing x) and 2k + 1 (the n - 2 call, *)
(* writing y).                                                             *)
(***************************************************************************)
Nodes == 1 .. (2 ^ MaxN - 1)
NoTask == [n |-> 0, st |-> "none", x |-> Uninit, y |-> Uninit, tmp |-> 0]
Spawned(n) == [n |-> n, st |-> "ready", x |-> Uninit, y |-> Uninit, tmp |-> 0]

\* the invocation the thread in slot t is inside, innermost
Top(t) == stack[t][Len(stack[t])]

\* a thread takes a task when it is idle or waits inside parallel_invoke
CanTake(t) == IF stack[t] = <<>> THEN TRUE ELSE tasks[Top(t)].st = "wait"

\* oneapi::tbb::parallel_invoke returns
parallel_invoke_first(k) == tasks[k].x /= Uninit \/ tasks[k].y /= Uninit
parallel_invoke_done(k) == tasks[k].x /= Uninit /\ tasks[k].y /= Uninit

\* parallel_invoke(f, g): both children become tasks, the caller waits
Invoke(k) ==
    [tasks EXCEPT ![k].st = "wait",
                  ![2 * k] = Spawned(tasks[k].n - 1),
                  ![2 * k + 1] = Spawned(tasks[k].n - 2)]

\* invocation k returns v: to main (k = 1), or into its parent's x or y
Return(tk, k, v) ==
    IF k = 1 THEN [tk EXCEPT ![1] = NoTask]
    ELSE IF k % 2 = 0 THEN [tk EXCEPT ![k] = NoTask, ![k \div 2].x = v]
    ELSE [tk EXCEPT ![k] = NoTask, ![k \div 2].y = v]

Returned(k, v) ==
    /\ ret' = (IF k = 1 THEN v ELSE ret)
    /\ pc' = (IF k /= 1 THEN pc ELSE IF pc = "timed_run" THEN "timed_ret" ELSE "emit")

(***************************************************************************)
(* std::cin.  The stream is its whitespace-separated tokens; a token is a  *)
(* number or NaN, a word operator>> cannot parse as a number.              *)
(***************************************************************************)
ExtractSkipping(s, old) ==
    IF s.eof \/ s.fail
    THEN [in |-> s.in, eof |-> s.eof, fail |-> TRUE, val |-> old]
    ELSE IF s.in = <<>>
    THEN [in |-> s.in, eof |-> TRUE, fail |-> TRUE, val |-> old]
    ELSE IF Head(s.in) = NaN
    THEN [in |-> Tail(s.in), eof |-> FALSE, fail |-> FALSE, val |-> 0]
    ELSE [in |-> Tail(s.in), eof |-> FALSE, fail |-> FALSE, val |-> Head(s.in)]

\* one formatted extraction, std::cin >> value, from the stream state
\* s = [in, eof, fail]; old is the value the variable held
Extract(s, old) ==
    IF s.eof \/ s.fail
    THEN [in |-> s.in, eof |-> s.eof, fail |-> TRUE, val |-> old]
    ELSE IF s.in = <<>>
    THEN [in |-> s.in, eof |-> TRUE, fail |-> TRUE, val |-> old]
    ELSE IF Head(s.in) = NaN
    THEN [in |-> s.in, eof |-> FALSE, fail |-> TRUE, val |-> 0]
    ELSE [in |-> Tail(s.in), eof |-> FALSE, fail |-> FALSE, val |-> Head(s.in)]

(***************************************************************************)
(* load_balance and the statistics of recursive-fib.cpp.                   *)
(***************************************************************************)
load_balance_braces(allowed, slots) ==
    [allowed |-> allowed, tbb |-> [s \in 0 .. (slots - 1) |-> IF s = 0 THEN slots ELSE 0]]

load_balance_by_allowed(allowed, slots) ==
    [allowed |-> allowed, tbb |-> [s \in 0 .. (allowed - 1) |-> 0]]

\* load_balance::load_balance(int allowed, int slots)
load_balance(allowed, slots) ==
    [allowed |-> allowed, tbb |-> [s \in 0 .. (slots - 1) |-> 0]]

SampleUnpadded(l) ==
    LET n == Cardinality(DOMAIN l.tbb)
        all == [j \in 1 .. n |-> l.tbb[j - 1]]
    IN  SelectSeq(all, LAMBDA c : c /= 0)

\* the vector v operator<< builds: std::remove_copy of the counters
\* without the zeros, then std::fill_n of allowed - size(v) zeros (none
\* when that is not positive)
Sample(l) ==
    LET n == Cardinality(DOMAIN l.tbb)
        all == [j \in 1 .. n |-> l.tbb[j - 1]]
        nz == SelectSeq(all, LAMBDA c : c /= 0)
        pad == l.allowed - Len(nz)
    IN  nz \o [j \in 1 .. (IF pad > 0 THEN pad ELSE 0) |-> 0]

\* the greatest int
INT_MAX == 2147483647

\* acc + x for an int acc and a u64 x, stored in an int again: the sum
\* modulo 2^32, as a two's complement number of 32 bits (x below 2^31)
Int32Add(acc, x) ==
    IF acc > 0 /\ x > INT_MAX - acc
    THEN (acc - INT_MAX - 1) + (x - INT_MAX - 1)
    ELSE acc + x

\* std::accumulate(first, last, init) with an int init: init = init + *it
\* for every element
RECURSIVE accumulate_from(_, _)
accumulate_from(s, init) ==
    IF s = <<>> THEN init ELSE accumulate_from(Tail(s), Int32Add(init, Head(s)))

\* std::accumulate(v.begin(), v.end(), 0) of line 166: the literal 0 is an
\* int, so the running sum is an int
accumulate(s) == accumulate_from(s, 0)

calc_statistics_nonzero(v) ==
    LET size == Len(SelectSeq(v, LAMBDA c : c /= 0))
        sum == accumulate(v)
    IN  [min |-> MinSeq(v), max |-> MaxSeq(v), sum |-> sum, count |-> size,
         dev2num |-> SumSeq([j \in 1 .. Len(v) |->
                              (size * v[j] - sum) * (size * v[j] - sum)]),
         dev2den |-> size * size * size]

calc_statistics_unbiased(v) ==
    LET size == Len(v)
        sum == accumulate(v)
    IN  [min |-> MinSeq(v), max |-> MaxSeq(v), sum |-> sum, count |-> size,
         dev2num |-> SumSeq([j \in 1 .. size |->
                              (size * v[j] - sum) * (size * v[j] - sum)]),
         dev2den |-> size * size * (size - 1)]

\* statistics calc_statistics(const std::vector<u64>& v), v not empty.
\* avg is the fraction sum / count; dev * dev is the fraction
\* dev2num / dev2den, the sum of (x - avg)^2 over count
calc_statistics(v) ==
    LET size == Len(v)
        sum == accumulate(v)
    IN  [min |-> MinSeq(v), max |-> MaxSeq(v), sum |-> sum, count |-> size,
         dev2num |-> SumSeq([j \in 1 .. size |->
                              (size * v[j] - sum) * (size * v[j] - sum)]),
         dev2den |-> size * size * size]

NoStats == [min |-> 0, max |-> 0, sum |-> 0, count |-> 0, dev2num |-> 0, dev2den |-> 0]

\* the record lines 210-216 write
Record(st) ==
    [n |-> fib_num, fib_result |-> result, nthread |-> nthread, jobs |-> jobs,
     lb_min |-> st.min, lb_dev2 |-> <<st.dev2num, st.dev2den>>, lb_max |-> st.max]

(***************************************************************************)
(* main of recursive-fib.cpp.                                              *)
(***************************************************************************)
NoArena == [live |-> FALSE, max_concurrency |-> 0]
NoObserver == [on |-> FALSE, counter |-> 0]

InitMain(streams) ==
    /\ stream \in streams
    /\ input = stream
    /\ tests \in TestCounts
    /\ eofbit = FALSE /\ failbit = FALSE
    /\ pc = "read"
    /\ i = 0 /\ fib_num = 0 /\ nthread = 0
    /\ arena = NoArena /\ observer = NoObserver
    /\ ret = 0 /\ result = 0 /\ jobs = 0 /\ nslots = 0
    /\ lb = load_balance(0, 0)
    /\ stats = NoStats
    /\ out = <<>> /\ err = <<>>
    /\ status = Running
    /\ tasks = [k \in Nodes |-> NoTask]
    /\ stack = [t \in Slots |-> <<>>]
    /\ invocations = 0
    /\ sample = <<>>
    /\ count = 0 /\ method = 0 /\ threads = 0 /\ iterations = 0 /\ go = 0
    /\ cpuset = {} /\ work = 0
    /\ where = <<>> /\ mask = <<>> /\ affinity = <<>> /\ applied = <<>>
    /\ joins = <<>> /\ ran = {} /\ narenas = 0

\* line 194: while (std::cin >> fib_num >> nthread), and lines 195-197 when
\* the read succeeded: the arena and its observer are constructed, i = 0
ReadRecord ==
    /\ pc = "read"
    /\ LET e1 == Extract([in |-> input, eof |-> eofbit, fail |-> failbit], fib_num)
           e2 == Extract(e1, nthread)
       IN  /\ input' = e2.in /\ eofbit' = e2.eof /\ failbit' = e2.fail
           /\ fib_num' = e1.val /\ nthread' = e2.val
           /\ IF e2.fail
              THEN pc' = "eofcheck" /\ UNCHANGED <<arena, observer, i>>
              ELSE /\ pc' = "timed"
                   /\ arena' = [live |-> TRUE, max_concurrency |-> e2.val]
                   /\ observer' = [on |-> TRUE, counter |-> 0]
                   /\ i' = 0
    /\ UNCHANGED <<tests, ret, result, jobs, nslots, lb, stats, out, err, status>>
    /\ UNCHANGED <<nopVars, sample>>
    /\ UNCHANGED <<stream, taskVars>>

\* lines 199-207, after parallel_fib returned
AfterTimed ==
    /\ pc = "timed_ret"
    /\ result' = ret
    /\ jobs' = threads_created(fib_num)
    /\ nslots' = max_concurrency
    /\ lb' = load_balance(nthread, max_concurrency)
    /\ pc' = "lb"
    /\ UNCHANGED <<input, eofbit, failbit, tests, i, fib_num, nthread, arena,
                   observer, ret, stats, out, err, status>>
    /\ UNCHANGED <<nopVars, sample>>
    /\ UNCHANGED <<stream, taskVars>>

NextRepetitionOnceMore ==
    /\ i' = i + 1
    /\ lb' = load_balance(0, 0)
    /\ IF i + 1 <= tests
       THEN pc' = "timed" /\ UNCHANGED <<arena, observer>>
       ELSE pc' = "read" /\ arena' = NoArena /\ observer' = NoObserver

\* the end of the body of the for loop of line 197, where lb is destroyed,
\* and of the while loop's when it was the last repetition: arena and
\* observer are destroyed
NextRepetition ==
    /\ i' = i + 1
    /\ lb' = load_balance(0, 0)
    /\ IF i + 1 < tests
       THEN pc' = "timed" /\ UNCHANGED <<arena, observer>>
       ELSE pc' = "read" /\ arena' = NoArena /\ observer' = NoObserver

\* lines 210-216: the record is written; operator<< (lines 145-157) sums
\* up a sample that is not empty
Emit ==
    /\ pc = "emit"
    /\ Sample(lb) /= <<>>
    /\ stats' = calc_statistics(Sample(lb))
    /\ out' = Append(out, Record(stats'))
    /\ NextRepetition
    /\ UNCHANGED <<input, eofbit, failbit, tests, fib_num, nthread, ret, result,
                   jobs, nslots, err, status>>
    /\ UNCHANGED <<nopVars, sample>>
    /\ UNCHANGED <<stream, taskVars>>

\* what an uninitialised or out-of-bounds u64 may read as
Garbage == {0, 7}

\* lines 210-216 when the sample is empty: calc_statistics dereferences
\* v.end() (lines 164-165), which is undefined; the build may read any
\* value there and go on
EmitEmptySample ==
    /\ pc = "emit"
    /\ Sample(lb) = <<>>
    /\ \E a \in Garbage, b \in Garbage :
          stats' = [NoStats EXCEPT !.min = a, !.max = b]
    /\ out' = Append(out, Record(stats'))
    /\ NextRepetition
    /\ UNCHANGED <<input, eofbit, failbit, tests, fib_num, nthread, ret, result,
                   jobs, nslots, err, status>>
    /\ UNCHANGED <<nopVars, sample>>
    /\ UNCHANGED <<stream, taskVars>>

\* ... or the process is killed on the invalid read, its record unwritten
CrashEmptySample ==
    /\ pc = "emit"
    /\ Sample(lb) = <<>>
    /\ pc' = "exit"
    /\ status' = Killed
    /\ UNCHANGED <<input, eofbit, failbit, tests, i, fib_num, nthread, arena,
                   observer, ret, result, jobs, nslots, lb, stats, out, err>>
    /\ UNCHANGED <<nopVars, sample>>
    /\ UNCHANGED <<stream, taskVars>>

\* line 220: !std::cin.eof() && std::cin.fail()
ReadErrorAnyFail == failbit
ReadError == ~eofbit /\ failbit

\* lines 220-224
Exit ==
    /\ pc = "eofcheck"
    /\ IF ReadError
       THEN /\ err' = Append(err, "error reading from stdin")
            /\ status' = EXIT_FAILURE
       ELSE /\ err' = err
            /\ status' = EXIT_SUCCESS
    /\ pc' = "exit"
    /\ UNCHANGED <<input, eofbit, failbit, tests, i, fib_num, nthread, arena,
                   observer, ret, result, jobs, nslots, lb, stats, out>>
    /\ UNCHANGED <<nopVars, sample>>
    /\ UNCHANGED <<stream, taskVars>>

(***************************************************************************)
(* parallel_fib and parallel_fib_lb, task by task.                         *)
(***************************************************************************)
\* line 199 / line 208: main calls parallel_fib(fib_num) or
\* parallel_fib_lb(fib_num, lb)
Call ==
    /\ pc \in {"timed", "lb"}
    /\ pc' = (IF pc = "timed" THEN "timed_run" ELSE "lb_run")
    /\ tasks' = [tasks EXCEPT ![1] = Spawned(fib_num)]
    /\ invocations' = 0
    /\ UNCHANGED <<nopVars, sample>>
    /\ UNCHANGED <<stream, input, eofbit, failbit, tests, i, fib_num, nthread,
                   arena, observer, ret, result, jobs, nslots, lb, stats, out,
                   err, status, stack>>

\* the thread in slot t enters invocation k: lines 80-81 / 93-94 return n;
\* else parallel_fib goes on to parallel_invoke (lines 84-86), and
\* parallel_fib_lb to take_measurement(), whose tbb[index]++ first reads
\* the counter (line 142)
Enter(t, k) ==
    /\ pc \in {"timed_run", "lb_run"}
    /\ tasks[k].st = "ready"
    /\ k = 1 => t = MainThread
    /\ CanTake(t)
    /\ IF tasks[k].n < 2
       THEN /\ tasks' = Return(tasks, k, tasks[k].n)
            /\ Returned(k, tasks[k].n)
            /\ UNCHANGED <<stack, invocations>>
       ELSE /\ stack' = [stack EXCEPT ![t] = Append(@, k)]
            /\ invocations' = invocations + 1
            /\ UNCHANGED <<ret, pc>>
            /\ IF pc = "timed_run"
               THEN tasks' = Invoke(k)
               ELSE tasks' = [tasks EXCEPT
                                ![k].st = "meas",
                                ![k].tmp = lb.tbb[current_thread_index(t)]]
    /\ UNCHANGED <<nopVars, sample>>
    /\ UNCHANGED <<stream, input, eofbit, failbit, tests, i, fib_num, nthread,
                   arena, observer, result, jobs, nslots, lb, stats, out, err,
                   status>>

\* load_balance::take_measurement() writes the counter back (line 142),
\* then parallel_fib_lb calls parallel_invoke (lines 98-100)
take_measurement(t) ==
    /\ pc = "lb_run"
    /\ stack[t] /= <<>>
    /\ tasks[Top(t)].st = "meas"
    /\ lb' = [lb EXCEPT !.tbb[current_thread_index(t)] = tasks[Top(t)].tmp + 1]
    /\ tasks' = Invoke(Top(t))
    /\ UNCHANGED <<nopVars, sample>>
    /\ UNCHANGED <<stream, input, eofbit, failbit, pc, tests, i, fib_num,
                   nthread, arena, observer, ret, result, jobs, nslots, stats,
                   out, err, status, stack, invocations>>

\* parallel_invoke returns to the thread in slot t, and the invocation
\* returns x + y (line 87 / line 101)
Join(t) ==
    /\ pc \in {"timed_run", "lb_run"}
    /\ stack[t] /= <<>>
    /\ tasks[Top(t)].st = "wait"
    /\ parallel_invoke_done(Top(t))
    /\ LET k == Top(t)
           v == tasks[k].x + tasks[k].y
       IN  /\ tasks' = Return(tasks, k, v)
           /\ Returned(k, v)
    /\ stack' = [stack EXCEPT ![t] = SubSeq(@, 1, Len(@) - 1)]
    /\ UNCHANGED <<nopVars, sample>>
    /\ UNCHANGED <<stream, input, eofbit, failbit, tests, i, fib_num, nthread,
                   arena, observer, result, jobs, nslots, lb, stats, out, err,
                   status, invocations>>

(***************************************************************************)
(* recursive-fib.cpp on one input record, task by task.                    *)
(***************************************************************************)
FineStreams == {<<n, t>> : n \in FineFibNums, t \in ThreadCounts}

Init == InitMain(FineStreams)

Next ==
    \/ ReadRecord
    \/ Call
    \/ \E t \in Slots, k \in Nodes : Enter(t, k)
    \/ \E t \in Slots : take_measurement(t)
    \/ \E t \in Slots : Join(t)
    \/ AfterTimed
    \/ Emit
    \/ EmitEmptySample
    \/ CrashEmptySample
    \/ Exit

Spec == Init /\ [][Next]_vars

\* main's thread runs tasks itself while it waits in parallel_invoke, and
\* nothing in the program blocks or cancels: while a step is possible, a
\* step is taken
SpecFair == Spec /\ WF_vars(Next)

(***************************************************************************)
(* recursive-fib.cpp, main's view: main is blocked in parallel_fib and in  *)
(* parallel_fib_lb until the whole task tree has returned, so each call is *)
(* one step of main.  What a call leaves behind is what Spec finds when a  *)
(* tree has returned: the value parallel_fib(n), and counters that hold    *)
(* one count per invocation with n >= 2, the first of them in main's slot, *)
(* the others in any slot.                                                 *)
(***************************************************************************)
\* the ways to split total into parts numbers, as sequences
RECURSIVE Splits(_, _)
Splits(total, parts) ==
    IF parts = 1 THEN {<<total>>}
    ELSE UNION {{<<a>> \o r : r \in Splits(total - a, parts - 1)} : a \in 0 .. total}

\* the counters a returned parallel_fib_lb(n, lb) can leave in lb.tbb
Counters(n, slots) ==
    {[s \in 0 .. (slots - 1) |-> d[s + 1]] :
        d \in {c \in Splits(measurements(n), slots) : n >= 2 => c[1] >= 1}}

\* line 199: auto result = parallel_fib(fib_num), from call to return
RunTimed ==
    /\ pc = "timed"
    /\ ret' = parallel_fib(fib_num)
    /\ pc' = "timed_ret"
    /\ invocations' = measurements(fib_num)
    /\ UNCHANGED <<nopVars, sample>>
    /\ UNCHANGED <<stream, input, eofbit, failbit, tests, i, fib_num, nthread,
                   arena, observer, result, jobs, nslots, lb, stats, out, err,
                   status, tasks, stack>>

\* line 208: parallel_fib_lb(fib_num, lb), from call to return
RunLb ==
    /\ pc = "lb"
    /\ \E c \in Counters(fib_num, nslots) : lb' = [lb EXCEPT !.tbb = c]
    /\ ret' = parallel_fib(fib_num)
    /\ pc' = "emit"
    /\ invocations' = measurements(fib_num)
    /\ UNCHANGED <<nopVars, sample>>
    /\ UNCHANGED <<stream, input, eofbit, failbit, tests, i, fib_num, nthread,
                   arena, observer, result, jobs, nslots, stats, out, err,
                   status, tasks, stack>>

\* longest input, in tokens
MaxTokens == 4
\* the tokens of the inputs: a word that is no number, and numbers that
\* serve as Fibonacci index and as worker count
Tokens == {NaN, 0, 1, 2, 3}

RECURSIVE SeqsUpTo(_, _)
SeqsUpTo(S, n) ==
    IF n = 0 THEN {<<>>}
    ELSE LET shorter == SeqsUpTo(S, n - 1)
         IN  shorter \cup {Append(q, e) : q \in {r \in shorter : Len(r) = n - 1}, e \in S}

MainStreams == SeqsUpTo(Tokens, MaxTokens)

InitDriver == InitMain(MainStreams)

NextDriver ==
    \/ ReadRecord
    \/ RunTimed
    \/ AfterTimed
    \/ RunLb
    \/ Emit
    \/ EmitEmptySample
    \/ CrashEmptySample
    \/ Exit

SpecMain == InitDriver /\ [][NextDriver]_vars

(***************************************************************************)
(* recursive-fib.cpp on one well-formed record, for the jobs metric.       *)
(***************************************************************************)
\* largest Fibonacci index of these records
MaxJobsN == 6

JobsStreams == {<<n, t>> : n \in 0 .. MaxJobsN, t \in ThreadCounts}

InitJobs == InitMain(JobsStreams)

SpecJobs == InitJobs /\ [][NextDriver]_vars

(***************************************************************************)
(* recursive-fib.cpp on the input record `10 4`, repetition count 1.       *)
(***************************************************************************)
InitE2E == InitMain({<<10, 4>>}) /\ tests = 1

NextE2E ==
    \/ ReadRecord
    \/ RunTimed
    \/ AfterTimed
    \/ RunLb
    \/ Emit
    \/ Exit

SpecE2E == InitE2E /\ [][NextE2E]_vars


(***************************************************************************)
(* calc_statistics on its own, on samples of up to MaxSample elements.     *)
(***************************************************************************)
MaxSample == 5

\* small counts, and counts whose sums reach 2^31
SmallCounts == 0 .. 5
LargeCounts == {0, 1, 1073741824, INT_MAX}

InitSample(samples) ==
    /\ sample \in samples
    /\ pc = "sample"
    /\ stream = <<>> /\ input = <<>>
    /\ tests = 1
    /\ eofbit = FALSE /\ failbit = FALSE
    /\ i = 0 /\ fib_num = 0 /\ nthread = 0
    /\ arena = NoArena /\ observer = NoObserver
    /\ ret = 0 /\ result = 0 /\ jobs = 0 /\ nslots = 0
    /\ lb = load_balance(0, 0)
    /\ stats = NoStats
    /\ out = <<>> /\ err = <<>>
    /\ status = Running
    /\ tasks = [k \in Nodes |-> NoTask]
    /\ stack = [t \in Slots |-> <<>>]
    /\ invocations = 0
    /\ count = 0 /\ method = 0 /\ threads = 0 /\ iterations = 0 /\ go = 0
    /\ cpuset = {} /\ work = 0
    /\ where = <<>> /\ mask = <<>> /\ affinity = <<>> /\ applied = <<>>
    /\ joins = <<>> /\ ran = {} /\ narenas = 0

\* lines 159-174: calc_statistics(v) returns
Reduce ==
    /\ pc = "sample"
    /\ stats' = calc_statistics(sample)
    /\ pc' = "reduced"
    /\ UNCHANGED <<stream, input, eofbit, failbit, tests, i, fib_num, nthread,
                   arena, observer, ret, result, jobs, nslots, lb, out, err,
                   status>>
    /\ UNCHANGED <<taskVars, nopVars, sample>>

Samples == SeqsUpTo(SmallCounts, MaxSample) \ {<<>>}

InitStats == InitSample(Samples)

SpecStats == InitStats /\ [][Reduce]_vars

\* lines 163 and 166: count, and the sum that avg is the quotient of
Average ==
    /\ pc = "sample"
    /\ stats' = [NoStats EXCEPT !.sum = accumulate(sample), !.count = Len(sample)]
    /\ pc' = "averaged"
    /\ UNCHANGED <<stream, input, eofbit, failbit, tests, i, fib_num, nthread,
                   arena, observer, ret, result, jobs, nslots, lb, out, err,
                   status>>
    /\ UNCHANGED <<taskVars, nopVars, sample>>

LargeSamples == SeqsUpTo(LargeCounts, MaxSample) \ {<<>>}

InitAvg == InitSample(LargeSamples)

SpecAvg == InitAvg /\ [][Average]_vars

(***************************************************************************)
(* noploop.cpp: main, the threads that join the arena of a record, and the *)
(* pinning observer.  arena.execute makes the calling thread join the      *)
(* arena, and a worker joins it when it has work and a free slot; the      *)
(* runtime calls on_scheduler_entry on every thread that joins, before the *)
(* thread runs anything in the arena.                                      *)
(***************************************************************************)
\* line 31: nprocs(get_nprocs())
nprocs == NProcs

\* the values of the fields of the input records
Methods == {0, 1, 4}
ThreadsValues == {1, 3}
IterationsValues == {2}
Counts == {0, 1, 2}

\* the threads: main, and the workers an arena of the widest record admits
MaxThreads == CHOOSE n \in ThreadsValues : \A m \in ThreadsValues : m <= n
Workers == 1 .. (MaxThreads - 1)
Threads == {MainThread} \cup Workers

\* how often workers join one arena
MaxJoins == 2

NoPinning == [on |-> FALSE, count |-> 0]

PreIncrement(c) == [value |-> c + 1, stored |-> c + 1]
\* line 43, count++ on std::atomic<unsigned>: one atomic fetch-and-add,
\* the value before it is the value of the expression
PostIncrement(c) == [value |-> c, stored |-> c + 1]

\* lines 89-96
CheckCount ==
    /\ pc = "start"
    /\ IF count < 1
       THEN /\ err' = Append(err, "count must be >= 1")
            /\ status' = EXIT_FAILURE
            /\ pc' = "exit"
       ELSE /\ pc' = "read"
            /\ UNCHANGED <<err, status>>
    /\ UNCHANGED <<stream, input, eofbit, failbit, i, arena, observer, out>>
    /\ UNCHANGED <<tests, fib_num, nthread, ret, result, jobs, nslots, lb, stats>>
    /\ UNCHANGED <<sample, taskVars, nopVars>>

\* line 102: while (std::cin >> method >> threads >> iterations), and
\* lines 103-129 when the read succeeded: the check of threads, the arena
\* and its observer, the choice of go; `continue` leaves the scope of the
\* arena and the observer, which destroys them
ReadSpec ==
    /\ pc = "read"
    /\ LET e1 == Extract([in |-> input, eof |-> eofbit, fail |-> failbit], method)
           e2 == Extract(e1, threads)
           e3 == Extract(e2, iterations)
       IN  /\ input' = e3.in /\ eofbit' = e3.eof /\ failbit' = e3.fail
           /\ method' = e1.val /\ threads' = e2.val /\ iterations' = e3.val
           /\ IF e3.fail
              THEN /\ pc' = "eofcheck"
                   /\ UNCHANGED <<arena, observer, go, i, err, narenas>>
              ELSE IF e2.val < 2
              THEN /\ err' = Append(err, "Threads must be < 2")
                   /\ pc' = "read"
                   /\ UNCHANGED <<arena, observer, go, i, narenas>>
              ELSE IF e1.val \notin 0 .. 3
              THEN /\ err' = Append(err, "Method must be in {0, 1, 2, 3}")
                   /\ pc' = "read"
                   /\ narenas' = narenas + 1
                   /\ arena' = NoArena /\ observer' = NoPinning
                   /\ UNCHANGED <<go, i>>
              ELSE /\ arena' = [live |-> TRUE, max_concurrency |-> e2.val]
                   /\ observer' = [on |-> TRUE, count |-> 0]
                   /\ narenas' = narenas + 1
                   /\ go' = e1.val
                   /\ i' = 0
                   /\ pc' = IF 0 < count THEN "execute" ELSE "destroy"
                   /\ err' = err
    /\ UNCHANGED <<stream, out, status>>
    /\ UNCHANGED <<tests, fib_num, nthread, ret, result, jobs, nslots, lb, stats>>
    /\ UNCHANGED <<sample, taskVars, count, cpuset, work, where, mask, affinity, applied,
                   joins, ran>>

\* line 131, arena.execute: main joins the arena
Execute ==
    /\ pc = "execute"
    /\ where' = [where EXCEPT ![MainThread] = "entered"]
    /\ pc' = "joining"
    /\ UNCHANGED <<stream, input, eofbit, failbit, i, arena, observer, out, err,
                   status>>
    /\ UNCHANGED <<tests, fib_num, nthread, ret, result, jobs, nslots, lb, stats>>
    /\ UNCHANGED <<sample, taskVars, count, method, threads, iterations, go, cpuset, work,
                   mask, affinity, applied, joins, ran, narenas>>

\* a worker joins the arena: the arena has work for it and a slot that is
\* not the one reserved for main
EnterArena(t) ==
    /\ pc = "go" /\ go /= 0 /\ work > 0
    /\ where[t] = "out"
    /\ Cardinality({w \in Workers : where[w] /= "out"}) < arena.max_concurrency - 1
    /\ observer.count < MaxJoins
    /\ where' = [where EXCEPT ![t] = "entered"]
    /\ UNCHANGED <<mainVars, taskVars, sample>>
    /\ UNCHANGED <<count, method, threads, iterations, go, cpuset, work, mask,
                   affinity, applied, joins, ran, narenas>>

\* lines 40-43 on the joining thread t
on_scheduler_entry(t) ==
    /\ where[t] = "entered"
    /\ LET c == PostIncrement(observer.count)
       IN  /\ observer' = [observer EXCEPT !.count = c.stored]
           /\ mask' = [mask EXCEPT ![t] = c.value % nprocs]
           /\ joins' = Append(joins, [arena |-> narenas, thread |-> t,
                                      value |-> c.value,
                                      unit |-> c.value % nprocs])
    /\ where' = [where EXCEPT ![t] = "masked"]
    /\ UNCHANGED <<stream, input, eofbit, failbit, pc, i, arena, out, err, status>>
    /\ UNCHANGED <<tests, fib_num, nthread, ret, result, jobs, nslots, lb, stats>>
    /\ UNCHANGED <<sample, taskVars, count, method, threads, iterations, go, cpuset, work,
                   affinity, applied, ran, narenas>>

\* line 44 on the joining thread t: the call fails when the system does
\* not let the process run on the processor of the mask; its result is
\* not looked at, and on_scheduler_entry returns
sched_setaffinity(t) ==
    /\ where[t] = "masked"
    /\ IF mask[t] \in cpuset
       THEN /\ affinity' = [affinity EXCEPT ![t] = {mask[t]}]
            /\ applied' = [applied EXCEPT ![t] = TRUE]
       ELSE /\ affinity' = affinity
            /\ applied' = [applied EXCEPT ![t] = FALSE]
    /\ where' = [where EXCEPT ![t] = "in"]
    /\ UNCHANGED <<mainVars, taskVars, sample>>
    /\ UNCHANGED <<count, method, threads, iterations, go, cpuset, work, mask,
                   joins, ran, narenas>>

\* line 131: main, in the arena, calls go(iterations)
Go ==
    /\ pc = "joining" /\ where[MainThread] = "in"
    /\ work' = iterations
    /\ pc' = "go"
    /\ UNCHANGED <<stream, input, eofbit, failbit, i, arena, observer, out, err,
                   status>>
    /\ UNCHANGED <<tests, fib_num, nthread, ret, result, jobs, nslots, lb, stats>>
    /\ UNCHANGED <<sample, taskVars, count, method, threads, iterations, go, cpuset, where,
                   mask, affinity, applied, joins, ran, narenas>>

\* lines 51, 58, 68, 82: one iteration's body on thread t; serial runs
\* them all on the calling thread, the others as tasks of the arena
Nop(t) ==
    /\ pc = "go" /\ work > 0
    /\ where[t] = "in"
    /\ t = MainThread \/ go /= 0
    /\ work' = work - 1
    /\ ran' = ran \cup {[thread |-> t, applied |-> applied[t]]}
    /\ UNCHANGED <<mainVars, taskVars, sample>>
    /\ UNCHANGED <<count, method, threads, iterations, go, cpuset, where, mask,
                   affinity, applied, joins, narenas>>

\* a worker that finds no work leaves the arena
LeaveArena(t) ==
    /\ t \in Workers
    /\ where[t] = "in" /\ work = 0
    /\ where' = [where EXCEPT ![t] = "out"]
    /\ UNCHANGED <<mainVars, taskVars, sample>>
    /\ UNCHANGED <<count, method, threads, iterations, go, cpuset, work, mask,
                   affinity, applied, joins, ran, narenas>>

\* lines 131-141: go has returned, main leaves the arena and writes the
\* record; line 129: i++
Executed ==
    /\ pc = "go" /\ work = 0
    /\ where' = [where EXCEPT ![MainThread] = "out"]
    /\ out' = Append(out, [method |-> method, threads |-> threads,
                           iterations |-> iterations])
    /\ i' = i + 1
    /\ pc' = IF i + 1 < count THEN "execute" ELSE "destroy"
    /\ UNCHANGED <<stream, input, eofbit, failbit, arena, observer, err, status>>
    /\ UNCHANGED <<tests, fib_num, nthread, ret, result, jobs, nslots, lb, stats>>
    /\ UNCHANGED <<sample, taskVars, count, method, threads, iterations, go, cpuset, work,
                   mask, affinity, applied, joins, ran, narenas>>

\* line 143, the end of the loop body: the observer is destroyed, which
\* waits for the calls of on_scheduler_entry under way, then the arena
DestroyArena ==
    /\ pc = "destroy"
    /\ \A t \in Threads : where[t] \notin {"entered", "masked"}
    /\ arena' = NoArena /\ observer' = NoPinning
    /\ where' = [t \in Threads |-> "out"]
    /\ pc' = "read"
    /\ UNCHANGED <<stream, input, eofbit, failbit, i, out, err, status>>
    /\ UNCHANGED <<tests, fib_num, nthread, ret, result, jobs, nslots, lb, stats>>
    /\ UNCHANGED <<sample, taskVars, count, method, threads, iterations, go, cpuset, work,
                   mask, affinity, applied, joins, ran, narenas>>

\* lines 145-149
ReturnFromMain ==
    /\ pc = "eofcheck"
    /\ IF eofbit
       THEN /\ status' = EXIT_SUCCESS
            /\ err' = err
       ELSE /\ err' = Append(err, "Could not read from cin")
            /\ status' = EXIT_FAILURE
    /\ pc' = "exit"
    /\ UNCHANGED <<stream, input, eofbit, failbit, i, arena, observer, out>>
    /\ UNCHANGED <<tests, fib_num, nthread, ret, result, jobs, nslots, lb, stats>>
    /\ UNCHANGED <<sample, taskVars, nopVars>>

\* the input streams: one or two records, and possibly a word that is no
\* number after them
Specs == {<<m, t, n>> : m \in Methods, t \in ThreadsValues, n \in IterationsValues}
NopStreams ==
    {r \o e : r \in Specs \cup {a \o b : a \in Specs, b \in Specs},
              e \in {<<>>, <<NaN>>}}

InitNop ==
    /\ stream \in NopStreams
    /\ input = stream
    /\ eofbit = FALSE /\ failbit = FALSE
    /\ pc = "start"
    /\ count \in Counts
    /\ method = 0 /\ threads = 0 /\ iterations = 0 /\ go = 0
    /\ i = 0
    /\ arena = NoArena /\ observer = NoPinning
    /\ out = <<>> /\ err = <<>>
    /\ status = Running
    /\ cpuset \in (SUBSET (0 .. (nprocs - 1))) \ {{}}
    /\ work = 0
    /\ where = [t \in Threads |-> "out"]
    /\ mask = [t \in Threads |-> Uninit]
    /\ affinity = [t \in Threads |-> cpuset]
    /\ applied = [t \in Threads |-> TRUE]
    /\ joins = <<>> /\ ran = {} /\ narenas = 0
    /\ tests = 0 /\ fib_num = 0 /\ nthread = 0
    /\ ret = 0 /\ result = 0 /\ jobs = 0 /\ nslots = 0
    /\ lb = load_balance(0, 0)
    /\ stats = NoStats
    /\ tasks = [k \in Nodes |-> NoTask]
    /\ stack = [t \in Slots |-> <<>>]
    /\ invocations = 0
    /\ sample = <<>>

NextNop ==
    \/ CheckCount
    \/ ReadSpec
    \/ Execute
    \/ \E t \in Workers : EnterArena(t)
    \/ \E t \in Threads : on_scheduler_entry(t)
    \/ \E t \in Threads : sched_setaffinity(t)
    \/ Go
    \/ \E t \in Threads : Nop(t)
    \/ \E t \in Workers : LeaveArena(t)
    \/ Executed
    \/ DestroyArena
    \/ ReturnFromMain

SpecNop == InitNop /\ [][NextNop]_vars

(***************************************************************************)
(* Properties.                                                             *)
(***************************************************************************)
\* the n-th number of the standard Fibonacci sequence 0, 1, 1, 2, 3, 5, ...
Fibonacci(n) ==
    LET pair[j \in 0 .. n] ==
            IF j = 0 THEN <<0, 1>> ELSE <<pair[j - 1][2], pair[j - 1][1] + pair[j - 1][2]>>
    IN  pair[n][1]

\* the sum of the counters of the load-balance tracker
SumCounters == SumSeq([j \in 1 .. Cardinality(DOMAIN lb.tbb) |-> lb.tbb[j - 1]])

\* C1: whenever a top-level parallel_fib or parallel_fib_lb call has
\* returned, it returned the fib_num-th Fibonacci number, whatever the
\* interleaving of the tasks; every value a child has handed to its
\* parent is the Fibonacci number of the child's argument, and the result
\* written to a record is that of the record's n.
C1_ReturnsFibonacci ==
    /\ pc \in {"timed_ret", "emit"} => ret = Fibonacci(fib_num)
    /\ \A k \in Nodes :
          tasks[k].st /= "none" =>
            /\ tasks[k].x /= Uninit => tasks[k].x = Fibonacci(tasks[k].n - 1)
            /\ tasks[k].y /= Uninit => tasks[k].y = Fibonacci(tasks[k].n - 2)
    /\ \A j \in 1 .. Len(out) : out[j].fib_result = Fibonacci(out[j].n)

\* an instrumented call of the largest tree has returned its Fibonacci
\* number after a thread other than main's ran some of its invocations
C1_Witness ==
    /\ pc = "emit" /\ fib_num = MaxN /\ ret = Fibonacci(MaxN)
    /\ \E s \in Slots \ {MainThread} : lb.tbb[s] > 0

\* C2: during and after an instrumented run the counters sum to the
\* number of parallel_fib_lb invocations with n >= 2 made so far, less
\* those that are inside take_measurement(); after the run, to their
\* number exactly: no increment is lost or counted twice.
C2_NoLostIncrement ==
    /\ pc = "lb_run" =>
          SumCounters + Cardinality({k \in Nodes : tasks[k].st = "meas"}) = invocations
    /\ pc = "emit" => SumCounters = invocations

\* an instrumented run has ended with both of two slots having counted
C2_Witness ==
    /\ pc = "lb_run"
    /\ \E s, t \in Slots :
          /\ s /= t /\ stack[s] /= <<>> /\ stack[t] /= <<>>
          /\ tasks[Top(s)].st = "meas" /\ tasks[Top(t)].st = "meas"

\* C3 as stated: after a completed instrumented run the counters sum to
\* calls(n), the jobs metric threads_created(n).
C3_SumIsCalls == pc = "emit" => SumCounters = threads_created(fib_num)

\* C3 as amended: after a completed instrumented run the counters sum to
\* half of calls(n): threads_created(n) counts the two tasks each
\* invocation with n >= 2 spawns, the counters count the invocations.
C3_TwiceSumIsCalls == pc = "emit" => 2 * SumCounters = threads_created(fib_num)

\* an instrumented run of n = 3 has ended: 2 invocations, 4 jobs
C3_Witness == pc = "emit" /\ fib_num = 3 /\ SumCounters = 2 /\ jobs = 4

\* calls(n) in closed form: twice the number of invocations with n >= 2,
\* of which there are Fibonacci(n + 1) - 1
Calls(n) == 2 * (Fibonacci(n + 1) - 1)

\* C4: the jobs metric main computes and writes is calls(n): 0 for n = 0
\* and n = 1, 2 for n = 2, 14 for n = 5, 2 + calls(n-1) + calls(n-2) for
\* n >= 2; it is the same for every worker count and every distribution
\* of the tasks over the threads.
C4_JobsMetric ==
    /\ pc \in {"lb", "emit"} => jobs = Calls(fib_num)
    /\ \A j \in 1 .. Len(out) :
          /\ out[j].jobs = Calls(out[j].n)
          /\ out[j].n \in {0, 1} => out[j].jobs = 0
          /\ out[j].n = 2 => out[j].jobs = 2
          /\ out[j].n = 5 => out[j].jobs = 14
          /\ out[j].n >= 2 =>
                out[j].jobs = 2 + threads_created(out[j].n - 1)
                                + threads_created(out[j].n - 2)
          /\ \A k \in 1 .. Len(out) : out[k].n = out[j].n => out[k].jobs = out[j].jobs

\* two records of n = 5 whose runs spread the invocations differently
\* both carry 14 jobs
C4_Witness ==
    /\ Len(out) = 2
    /\ out[1].n = 5 /\ out[1].jobs = 14 /\ out[2].jobs = 14
    /\ out[1].lb_max /= out[2].lb_max

\* min <= avg <= max, avg being sum / count
AvgBetween(st) == st.min * st.count <= st.sum /\ st.sum <= st.max * st.count

\* C5 as stated: input `10 4`, repetition count 1: exactly one record,
\* n = 10, fib_result = 55, nthread = 4, jobs = 88, the load-balance min
\* and max in [0, 88], min <= avg <= max.
C5_EndToEnd88 ==
    /\ Len(out) <= 1
    /\ pc = "exit" =>
          /\ Len(out) = 1
          /\ out[1].n = 10 /\ out[1].fib_result = 55 /\ out[1].nthread = 4
          /\ out[1].jobs = 88
          /\ out[1].lb_min \in 0 .. 88 /\ out[1].lb_max \in 0 .. 88
          /\ out[1].lb_min = stats.min /\ out[1].lb_max = stats.max
          /\ AvgBetween(stats)

\* C5 as amended: the same with jobs = calls(10) = 176 and the
\* load-balance min and max in [0, 176].
C5_EndToEnd ==
    /\ Len(out) <= 1
    /\ pc = "exit" =>
          /\ Len(out) = 1
          /\ out[1].n = 10 /\ out[1].fib_result = 55 /\ out[1].nthread = 4
          /\ out[1].jobs = 176 /\ Calls(10) = 176
          /\ out[1].lb_min \in 0 .. 176 /\ out[1].lb_max \in 0 .. 176
          /\ out[1].lb_min = stats.min /\ out[1].lb_max = stats.max
          /\ AvgBetween(stats)

\* the run of `10 4` has ended after a run that counted 60 invocations in
\* one slot and 28 in the other
C5_Witness ==
    /\ pc = "exit" /\ status = EXIT_SUCCESS /\ Len(out) = 1
    /\ out[1].lb_max = 60 /\ stats.sum = 88

\* C6: a record whose worker count is below 2 is skipped: no workload
\* runs for it and no record is written for it.
C6_SmallWorkerCountSkipped ==
    /\ pc \in {"timed", "timed_ret", "lb", "emit"} => nthread >= 2
    /\ \A j \in 1 .. Len(out) : out[j].nthread >= 2

\* the well-formed records at the start of a stream, up to the first
\* token that is no number or is the only one left
RECURSIVE WellFormedPrefix(_)
WellFormedPrefix(s) ==
    IF Len(s) >= 2 /\ s[1] /= NaN /\ s[2] /= NaN
    THEN <<SubSeq(s, 1, 2)>> \o WellFormedPrefix(SubSeq(s, 3, Len(s)))
    ELSE <<>>

\* the read loop has ended and main has exited
Exited == pc = "exit" /\ status \in {EXIT_SUCCESS, EXIT_FAILURE}

\* C7 as stated: a malformed record is skipped and the loop goes on: when
\* main has exited, a well-formed record that follows a token that is no
\* number has its records in the output.
C7_MalformedSkipped ==
    Exited =>
      \A j \in 1 .. Len(stream) :
         (stream[j] = NaN /\ j + 2 <= Len(stream)
            /\ stream[j + 1] /= NaN /\ stream[j + 2] /= NaN)
         => \E k \in 1 .. Len(out) :
               out[k].n = stream[j + 1] /\ out[k].nthread = stream[j + 2]

\* C7 as amended: the records written are those of the well-formed
\* records before the first malformed or cut-off one, tests of each, in
\* order; a token that is no number ends the read loop with the
\* diagnostic and EXIT_FAILURE, it and all that follows it unread; a last
\* record cut off by the end of the stream ends it with no diagnostic
\* and EXIT_SUCCESS.
C7_MalformedEndsLoop ==
    LET good == WellFormedPrefix(stream)
        rest == SubSeq(stream, 2 * Len(good) + 1, Len(stream))
    IN  /\ Len(out) <= tests * Len(good)
        /\ \A j \in 1 .. Len(out) :
              /\ out[j].n = good[(j - 1) \div tests + 1][1]
              /\ out[j].nthread = good[(j - 1) \div tests + 1][2]
        /\ Exited =>
              /\ Len(out) = tests * Len(good)
              /\ IF \E j \in 1 .. Len(rest) : j <= 2 /\ rest[j] = NaN
                 THEN /\ status = EXIT_FAILURE
                      /\ err = <<"error reading from stdin">>
                      /\ input /= <<>> /\ Head(input) = NaN
                      /\ \E j \in 1 .. 2 : input = SubSeq(rest, j, Len(rest))
                 ELSE /\ status = EXIT_SUCCESS
                      /\ err = <<>>
                      /\ input = <<>> /\ Len(rest) <= 1

\* main has exited on a record whose second field is no number, with the
\* well-formed record that follows it unread
C7_Witness ==
    /\ Exited /\ status = EXIT_FAILURE /\ out = <<>>
    /\ Len(stream) = 4 /\ stream[1] /= NaN /\ stream[2] = NaN
    /\ Len(input) = 3 /\ input[2] /= NaN /\ input[3] /= NaN

\* the stream is nothing but complete well-formed records
CleanEnd == 2 * Len(WellFormedPrefix(stream)) = Len(stream)

\* C8 as stated: main exits with success exactly when the read loop
\* ended at a clean end of the stream; otherwise with the diagnostic and
\* a non-zero status.
C8_SuccessIffCleanEnd ==
    Exited =>
      /\ status = EXIT_SUCCESS <=> CleanEnd
      /\ ~CleanEnd => status /= 0 /\ err /= <<>>

\* C8 as amended: main exits with success exactly when the end of the
\* stream was reached, also when that cut the last record off after its
\* first field; when reading stopped before the end of the stream, at a
\* token that is no number, it exits with the diagnostic and EXIT_FAILURE.
C8_SuccessIffEndOfStream ==
    Exited =>
      /\ status = EXIT_SUCCESS <=> eofbit
      /\ eofbit <=> input = <<>>
      /\ eofbit => err = <<>>
      /\ ~eofbit =>
            /\ Head(input) = NaN
            /\ status = EXIT_FAILURE
            /\ err = <<"error reading from stdin">>

\* main has exited with success on a stream whose last record lacks its
\* second field, after writing the records of the one before it
C8_Witness ==
    /\ Exited /\ status = EXIT_SUCCESS /\ ~CleanEnd
    /\ Len(stream) = 3 /\ Len(out) >= 1

\* the values on_scheduler_entry drew for the a-th arena, in the order
\* they were drawn
JoinsOf(a) == SelectSeq(joins, LAMBDA e : e.arena = a)

\* C9: in every arena the k-th join (from 0, in the order of the calls'
\* count++) is assigned unit k mod U, also when joins overlap: the K
\* joins of an arena draw the values 0 .. K-1, one each, and the counter
\* of the fresh arena of every record starts from 0.
C9_RoundRobin ==
    /\ \A a \in 1 .. narenas :
          \A k \in 1 .. Len(JoinsOf(a)) :
             /\ JoinsOf(a)[k].value = k - 1
             /\ JoinsOf(a)[k].unit = (k - 1) % NProcs
    /\ \A e \in 1 .. Len(joins) : joins[e].arena \in 1 .. narenas
    /\ observer.on => observer.count = Len(JoinsOf(narenas))
    /\ \A t \in Threads :
          where[t] = "masked" =>
             \E k \in 1 .. Len(JoinsOf(narenas)) :
                /\ JoinsOf(narenas)[k].thread = t
                /\ JoinsOf(narenas)[k].unit = mask[t]
                /\ \A s \in Threads \ {t} :
                      where[s] = "masked" =>
                         \E l \in 1 .. Len(JoinsOf(narenas)) :
                            l /= k /\ JoinsOf(narenas)[l].thread = s

\* in the arena of the second record two threads are inside
\* on_scheduler_entry at once, after three joins of that arena, the third
\* of which wrapped around to unit 0; the first arena had joins too
C9_Witness ==
    /\ narenas = 2
    /\ Len(JoinsOf(1)) >= 1
    /\ Len(JoinsOf(2)) = 3 /\ JoinsOf(2)[3].unit = 0
    /\ \E s, t \in Threads : s /= t /\ where[s] = "masked" /\ where[t] = "masked"

\* C10: when sched_setaffinity fails in on_scheduler_entry the process
\* ends with a diagnostic and a non-zero status, and the thread runs
\* nothing afterwards: nothing runs with an affinity that was not applied.
C10_AffinityFailureFatal ==
    /\ \A t \in Threads :
          (where[t] = "in" /\ ~applied[t]) =>
             (status \notin {Running, EXIT_SUCCESS} /\ err /= <<>>)
    /\ \A r \in ran : r.applied
    /\ (\E t \in Threads : ~applied[t]) => status /= EXIT_SUCCESS

\* the threads that are inside an invocation of the running call tree
Executing == {t \in Slots : stack[t] /= <<>>}

\* C11: the timed and the instrumented workload of a record run inside
\* the arena built for the record: at most nthread threads execute its
\* tasks at any moment, and each of them has passed through the arena's
\* pinning observer.
C11_RunsInsideArena ==
    pc \in {"timed_run", "lb_run"} =>
       /\ arena.live /\ arena.max_concurrency = nthread
       /\ Cardinality(Executing) <= arena.max_concurrency
       /\ Cardinality(Executing) <= observer.counter

\* C12 as stated: the tracker of a measured run has nthread counters, and
\* every take_measurement() increments one whose index is in
\* [0, nthread), inside the array.
C12_CountersAreWorkers ==
    /\ pc \in {"lb", "lb_run", "emit"} => Cardinality(DOMAIN lb.tbb) = nthread
    /\ pc = "lb_run" =>
          \A t \in Executing :
             /\ current_thread_index(t) \in 0 .. (nthread - 1)
             /\ current_thread_index(t) \in DOMAIN lb.tbb

\* C12 as amended: the tracker of a measured run has nslots counters,
\* nslots being the concurrency of the arena main's thread is in, whatever
\* nthread is, and every take_measurement() increments one whose index is
\* in [0, nslots), inside the array.
C12_CountersAreSlots ==
    /\ pc \in {"lb", "lb_run", "emit"} =>
          /\ nslots = max_concurrency
          /\ DOMAIN lb.tbb = 0 .. (nslots - 1)
          /\ lb.allowed = nthread
    /\ pc = "lb_run" =>
          \A t \in Executing :
             /\ current_thread_index(t) \in 0 .. (nslots - 1)
             /\ current_thread_index(t) \in DOMAIN lb.tbb

\* with nthread = 1 the thread in slot 1 is about to increment counter 1
C12_Witness ==
    /\ pc = "lb_run" /\ nthread = 1
    /\ \E t \in Executing :
          /\ tasks[Top(t)].st = "meas"
          /\ current_thread_index(t) = 1

\* C13: calc_statistics reports an error when the sample is empty and
\* returns no result for it, and the sample operator<< passes to it is
\* never empty: every record written carries statistics of a sample that
\* was not empty, and the process is not killed.
C13_SampleNeverEmpty ==
    /\ pc = "emit" => Sample(lb) /= <<>>
    /\ out /= <<>> => stats.count > 0
    /\ pc = "exit" => status \in {EXIT_SUCCESS, EXIT_FAILURE}

\* the records read so far, while the reading has not failed
Consumed == (Len(stream) - Len(input)) \div 2

\* C14: a record is run tests times and tests records are written for it,
\* in input order, before the next record is read; in a repetition the
\* timed run has returned before the instrumented run starts, and the
\* record is written after the instrumented run has returned.
C14_Repetitions ==
    /\ [](/\ pc \in {"timed", "timed_ret", "lb", "emit"} =>
               /\ i < tests
               /\ Len(out) = tests * (Consumed - 1) + i
               /\ fib_num = stream[2 * Consumed - 1]
               /\ nthread = stream[2 * Consumed]
          /\ pc = "read" => Len(out) = tests * Consumed
          /\ \A j \in 1 .. Len(out) :
                /\ out[j].n = stream[2 * ((j - 1) \div tests) + 1]
                /\ out[j].nthread = stream[2 * ((j - 1) \div tests) + 2])
    /\ [][/\ out' /= out =>
               /\ pc = "emit"
               /\ Len(out') = Len(out) + 1
               /\ SubSeq(out', 1, Len(out)) = out
          /\ (pc' = "emit" /\ pc /= "emit") => pc = "lb"
          /\ (pc' = "lb" /\ pc /= "lb") => (pc = "timed_ret" /\ ret = Fibonacci(fib_num))
          /\ (pc' = "timed_ret" /\ pc /= "timed_ret") => pc = "timed"
          /\ (pc' = "timed" /\ pc /= "timed") => pc \in {"read", "emit"}
          /\ input' /= input => (pc = "read" /\ Len(out) = tests * Consumed)]_vars

\* the second record of a stream is about to be run, after the two
\* repetitions of the first have written their records
C14_Witness ==
    /\ pc = "timed" /\ i = 0 /\ tests = 2
    /\ Consumed = 2 /\ Len(out) = 2
    /\ out[1].n = stream[1] /\ out[2].n = stream[1]

\* the counters of the tracker that are not zero, in slot order
NonZero(l) ==
    SelectSeq([j \in 1 .. Cardinality(DOMAIN l.tbb) |-> l.tbb[j - 1]],
              LAMBDA c : c /= 0)

\* operator<< reduces a sample that is not empty and the record is written
Reduces == pc = "emit" /\ Sample(lb) /= <<>> /\ out' /= out

\* C15 as stated: the mean and the deviation of the summary have the
\* number of non-zero counters as denominator, not the length of the
\* padded sample; min and max are those of the padded sample.
C15_UnpaddedDenominator ==
    [][Reduces =>
         /\ stats'.count = Len(NonZero(lb))
         /\ stats'.min = MinSeq(Sample(lb))
         /\ stats'.max = MaxSeq(Sample(lb))]_vars

\* C15 as amended: the mean and the deviation of the summary have the
\* length of the zero-padded sample as denominator, the same sample min
\* and max are taken over.
C15_PaddedDenominator ==
    [][Reduces =>
         /\ stats'.count = Len(Sample(lb))
         /\ stats'.count >= lb.allowed
         /\ stats'.sum = SumSeq(NonZero(lb))
         /\ stats'.dev2den = Len(Sample(lb)) * Len(Sample(lb)) * Len(Sample(lb))
         /\ stats'.dev2num =
               SumSeq([j \in 1 .. Len(Sample(lb)) |->
                         (Len(Sample(lb)) * Sample(lb)[j] - stats'.sum)
                         * (Len(Sample(lb)) * Sample(lb)[j] - stats'.sum)])
         /\ stats'.min = MinSeq(Sample(lb))
         /\ stats'.max = MaxSeq(Sample(lb))
         /\ out'[Len(out')].lb_dev2 = <<stats'.dev2num, stats'.dev2den>>]_vars

\* a record was written for nthread = 3 from the counters 1 and 1: the
\* sample was 1, 1, 0, and the denominator 3
C15_Witness ==
    /\ out /= <<>> /\ nthread = 3
    /\ stats.count = 3 /\ stats.sum = 2 /\ stats.max = 1 /\ stats.min = 0
    /\ out[Len(out)].lb_dev2 = <<6, 27>>

SumSquares(s) == SumSeq([j \in 1 .. Len(s) |-> s[j] * s[j]])

\* C16: for a sample that is not empty calc_statistics returns its least
\* element as min, its greatest as max, sum / count as avg and
\* sum((x - avg)^2) / count, which is (count * sum(x^2) - sum^2) / count^2,
\* as dev^2; for 1, 2, 3, 4, 5 that is 1, 5, 3 and 2, and for equal
\* elements dev = 0 and min = max = avg.
C16_Statistics ==
    pc = "reduced" =>
       /\ \E j \in 1 .. Len(sample) : stats.min = sample[j]
       /\ \A j \in 1 .. Len(sample) : stats.min <= sample[j]
       /\ \E j \in 1 .. Len(sample) : stats.max = sample[j]
       /\ \A j \in 1 .. Len(sample) : stats.max >= sample[j]
       /\ stats.count = Len(sample)
       /\ stats.sum = SumSeq(sample)
       /\ stats.dev2den > 0
       /\ stats.dev2num * stats.count * stats.count =
             (stats.count * SumSquares(sample) - stats.sum * stats.sum)
             * stats.dev2den
       /\ sample = <<1, 2, 3, 4, 5>> =>
             /\ stats.min = 1 /\ stats.max = 5
             /\ stats.sum = 3 * stats.count
             /\ stats.dev2num = 2 * stats.dev2den
       /\ (\A j \in 1 .. Len(sample) : sample[j] = sample[1]) =>
             /\ stats.dev2num = 0
             /\ stats.min = stats.max
             /\ stats.sum = stats.min * stats.count

\* calc_statistics has returned for the sample 1, 2, 3, 4, 5
C16_Witness ==
    /\ pc = "reduced" /\ sample = <<1, 2, 3, 4, 5>>
    /\ stats.min = 1 /\ stats.max = 5 /\ stats.sum = 15 /\ stats.count = 5
    /\ stats.dev2num = 2 * stats.dev2den

\* the sum of a sequence of numbers below 2^31 as the pair of its part
\* above and its part below 2^16
ExactSum(s) ==
    LET lo == SumSeq([j \in 1 .. Len(s) |-> s[j] % 65536])
        hi == SumSeq([j \in 1 .. Len(s) |-> s[j] \div 65536])
    IN  <<hi + lo \div 65536, lo % 65536>>

\* C20: the sum calc_statistics divides by the length to get avg is the
\* arithmetic sum of the sample, also when that is 2^31 or more: it
\* is not wrapped or cut to a narrower integer.
C20_ExactAverage ==
    pc = "averaged" =>
       /\ stats.count = Len(sample)
       /\ stats.sum >= 0
       /\ <<stats.sum \div 65536, stats.sum % 65536>> = ExactSum(sample)

\* no invocation of the call tree is in flight
Quiescent ==
    /\ \A k \in Nodes : tasks[k].st = "none"
    /\ \A t \in Slots : stack[t] = <<>>

\* C18: when the top-level parallel_fib_lb call has returned no task of
\* the run is in flight and the counters are final: they hold one count
\* per invocation with n >= 2, nothing changes them before operator<<
\* reads them, and operator<< reduces those; and every top-level call,
\* timed or instrumented, returns.
C18_RunCompletes ==
    /\ [](pc \in {"timed_ret", "lb", "emit"} => Quiescent)
    /\ [](pc = "emit" => SumCounters = measurements(fib_num))
    /\ [][pc = "emit" =>
            /\ pc' /= "emit"
            /\ Reduces => stats'.sum = SumCounters
            /\ tasks' = tasks /\ stack' = stack]_vars
    /\ (pc = "timed_run") ~> (pc = "timed_ret")
    /\ (pc = "lb_run") ~> (pc = "emit")

\* the instrumented run of n = 3 has returned with one count in each of
\* two slots and nothing in flight
C18_Witness ==
    /\ pc = "emit" /\ fib_num = 3 /\ Quiescent
    /\ lb.tbb[0] = 1 /\ lb.tbb[1] = 1

\* C19: the tracker of a repetition is created with all its counters
\* zero, the timed run changes no counter, only steps of the repetition's
\* instrumented run do, one count at a time, and nothing is carried over:
\* at the end of the instrumented run the counters hold the invocations of
\* this run alone.
C19_FreshTracker ==
    /\ [](pc = "lb" =>
            /\ DOMAIN lb.tbb = 0 .. (nslots - 1)
            /\ \A s \in DOMAIN lb.tbb : lb.tbb[s] = 0)
    /\ [](pc \in {"read", "timed", "timed_run", "timed_ret"} => SumCounters = 0)
    /\ [](pc = "lb_run" => SumCounters <= invocations)
    /\ [](pc = "emit" => SumCounters = measurements(fib_num))
    /\ [][/\ pc \in {"timed", "timed_run"} => lb' = lb
          /\ lb' /= lb =>
               \/ pc = "timed_ret"
               \/ pc = "emit" /\ pc' /= "emit"
               \/ /\ pc = "lb_run" /\ lb'.allowed = lb.allowed
                  /\ \E s \in DOMAIN lb.tbb :
                        lb'.tbb = [lb.tbb EXCEPT ![s] = lb.tbb[s] + 1]]_vars

\* the instrumented run of the second repetition has returned, after the
\* record of the first was written
C19_Witness ==
    /\ pc = "emit" /\ i = 1 /\ Len(out) = 1 /\ fib_num >= 2
    /\ SumCounters = measurements(fib_num)
=============================================================================
